---- MODULE Spec2Model ----
(***************************************************************************)
(* Model of darts/models/rnn_model.py: the _RNNModule torch module and the *)
(* RNNModel forecasting model that wires it into the training/prediction   *)
(* harness of TorchForecastingModel.                                       *)
(*                                                                         *)
(* Tensors are records [shape, data]: shape is the tuple of dimensions and *)
(* data the row-major flattening.  Tensor entries are floating-point       *)
(* numbers written in thousandths (1000 stands for 1.0).                   *)
(***************************************************************************)
EXTENDS Integers, Sequences, FiniteSets, TLC

VARIABLES
    pc,      \* "start" | "constructed" | "raised": where the RNNModel object is
    self,    \* the attributes RNNModel.__init__ has assigned so far
    kwargs,  \* the keyword arguments handed to TorchForecastingModel.__init__
    exc,     \* the exception the constructor ended with, or None
    model,   \* self.model: the module the harness got from _create_model, or None
    op,      \* the method that ran last
    args,    \* the arguments that method was called with
    ret,     \* what it returned
    calls,   \* the library calls it made, in order
    step     \* number of prediction steps made in the running prediction loop

vars == <<pc, self, kwargs, exc, model, op, args, ret, calls, step>>

----------------------------------------------------------------------------
(* Bounds of the model *)

MaxBatch == 2
MaxLen == 2
MaxDim == 2
MaxTrainLen == 2
MaxSteps == 2

----------------------------------------------------------------------------
(* Python values *)

None == [cls |-> "NoneType"]

Str(s) == [cls |-> "str", val |-> s]

BoolInt(b) == IF b THEN 1 ELSE 0

RECURSIVE Prod(_)
Prod(s) == IF s = <<>> THEN 1 ELSE Head(s) * Prod(Tail(s))

RECURSIVE Sum(_)
Sum(s) == IF s = <<>> THEN 0 ELSE Head(s) + Sum(Tail(s))

Numel(t) == Prod(t.shape)

Tensor(shape, data) == [cls |-> "Tensor", shape |-> shape, data |-> data]

\* Entry (b, l, k), 1-based, of a 3-axis tensor
At(t, b, l, k) == t.data[((b - 1) * t.shape[2] + (l - 1)) * t.shape[3] + k]

\* The values a network output or an input can take, in thousandths.  The
\* first one is so negative that exp() of it underflows to 0.0 in both
\* float32 and float64.
Vals == <<-1000000, -1000, 0, 2000, 30000>>

ValAt(n) == Vals[(n % Len(Vals)) + 1]

\* Small residue of a tensor's content, used to make results depend on inputs
Digest(t) == (Sum(t.data) \div 1000) % 7

\* A tensor of the given shape, one for each seed
TensorOf(shape, seed) ==
    Tensor(shape, [i \in 1..Prod(shape) |-> ValAt(i + seed)])

----------------------------------------------------------------------------
(* The torch operations the module uses *)

\* t.view(*dims): the same data under a new shape; one dimension may be -1
\* and is inferred from the number of elements.
View(t, dims) ==
    LET known == Prod([i \in 1..Len(dims) |-> IF dims[i] = -1 THEN 1 ELSE dims[i]])
        shape == [i \in 1..Len(dims) |->
                    IF dims[i] = -1 THEN Numel(t) \div known ELSE dims[i]]
    IN  IF known = 0 \/ Numel(t) % known # 0
        THEN [cls |-> "RuntimeError", message |-> "shape is invalid for input"]
        ELSE Tensor(shape, t.data)

\* t[:, :, lo:hi] of a 3-axis tensor (0-based, hi exclusive, clipped like Python)
SliceLast(t, lo, hi) ==
    LET W == t.shape[3]
        a == IF lo > W THEN W ELSE lo
        b == IF hi > W THEN W ELSE hi
        w == IF b > a THEN b - a ELSE 0
        rows == t.shape[1] * t.shape[2]
    IN  Tensor(<<t.shape[1], t.shape[2], w>>,
               [j \in 1..(rows * w) |->
                    t.data[((j - 1) \div w) * W + a + ((j - 1) % w) + 1]])

\* nn.Softplus() on one entry: log(1 + exp(v)) in floating point, and v itself
\* above the default threshold of 20.  exp(-1000.0) is 0.0, so is the result.
SoftplusVal(v) ==
    CASE v > 20000    -> v
      [] v = 2000     -> 2127
      [] v = 0        -> 693
      [] v = -1000    -> 313
      [] v = -1000000 -> 0

Softplus(t) == Tensor(t.shape, [i \in 1..Len(t.data) |-> SoftplusVal(t.data[i])])

\* nn.RNN / nn.LSTM / nn.GRU with one layer, batch_first: a == <<x>> runs from
\* the default (zero) initial state, a == <<x, h>> from h.
ZeroHidden(rnn, B) ==
    [cls |-> "hidden", type |-> rnn.type, shape |-> <<1, B, rnn.hidden_size>>, val |-> 0]

nn_rnn(rnn, a) ==
    LET x  == a[1]
        B  == x.shape[1]
        h0 == IF Len(a) = 1 THEN ZeroHidden(rnn, B) ELSE a[2]
        d  == Digest(x)
    IN  [out |-> Tensor(<<B, x.shape[2], rnn.hidden_size>>,
                        [i \in 1..(B * x.shape[2] * rnn.hidden_size) |->
                            ValAt(i + d + h0.val)]),
         hidden |-> [cls |-> "hidden", type |-> rnn.type,
                     shape |-> <<1, B, rnn.hidden_size>>,
                     val |-> (2 * h0.val + d + 1) % Len(Vals)]]

\* nn.Linear applied to the last axis
nn_Linear(V, t) ==
    LET d == Digest(t)
    IN  Tensor(<<t.shape[1], t.shape[2], V.out_features>>,
               [i \in 1..(t.shape[1] * t.shape[2] * V.out_features) |->
                    ValAt(i + d)])

\* nn.GaussianNLLLoss(reduction)(input, target, var): var is the variance
GaussianNLLLoss(reduction, input, target, var) ==
    [fn |-> "GaussianNLLLoss", reduction |-> reduction,
     input |-> input, target |-> target, var |-> var]

\* torch.normal(mean, std): a draw from the Gaussians with the given means and
\* standard deviations
torch_normal(mean, std) ==
    [fn |-> "torch.normal", mean |-> mean, std |-> std]

\* Variance of the Gaussian a torch.normal draw comes from: std squared
VarianceOfSample(s) ==
    Tensor(s.std.shape, [i \in 1..Len(s.std.data) |->
                            (s.std.data[i] * s.std.data[i]) \div 1000])

----------------------------------------------------------------------------
(* class _RNNModule *)

\* _RNNModule.__init__: id tells module objects apart (0: built by _create_model)
_RNNModule(id, name, input_size, hidden_dim, target_size, dropout, probabilistic) ==
    [cls |-> "_RNNModule", id |-> id,
     target_size |-> target_size,
     name |-> name,
     is_probabilistic |-> probabilistic,
     rnn |-> [type |-> name, input_size |-> input_size, hidden_size |-> hidden_dim,
              num_layers |-> 1, batch_first |-> TRUE, dropout |-> dropout],
     V |-> [in_features |-> hidden_dim,
            out_features |-> target_size + BoolInt(probabilistic) * target_size]]

\* forward with the view taken at target_size columns, the factor for the
\* probabilistic case forgotten
forward_ViewTargetSize(m, x, h) ==
    LET rnn_args == IF h = None THEN <<x>> ELSE <<x, h>>
        r == nn_rnn(m.rnn, rnn_args)
    IN  [ret |-> <<View(nn_Linear(m.V, r.out), <<x.shape[1], -1, m.target_size>>),
                   r.hidden>>,
         calls |-> <<[fn |-> "self.rnn", args |-> rnn_args]>>]

\* _RNNModule.forward(x, h): ret is the pair (predictions, last_hidden_state),
\* calls the invocations of self.rnn it made
forward(m, x, h) ==
    LET batch_size == x.shape[1]
        rnn_args == IF h = None THEN <<x>> ELSE <<x, h>>
        r == nn_rnn(m.rnn, rnn_args)
        predictions == nn_Linear(m.V, r.out)
        viewed == View(predictions,
                       <<batch_size, -1,
                         m.target_size + BoolInt(m.is_probabilistic) * m.target_size>>)
    IN  [ret |-> <<viewed, r.hidden>>,
         calls |-> <<[fn |-> "self.rnn", args |-> rnn_args]>>]

----------------------------------------------------------------------------
(* class RNNModel *)

\* An object no attribute has been assigned to yet
NoAttrs == <<>>

RNNTypes == {Str("RNN"), Str("LSTM"), Str("GRU")}

isinstance_Module(o) == o.cls = "_RNNModule"

\* darts.logging.raise_if_not: raises ValueError(message) unless the condition holds
raise_if_not(condition, message) ==
    IF condition THEN None ELSE [cls |-> "ValueError", message |-> message]

NotValidMessage ==
    " is not a valid RNN model.\n Please specify \"RNN\", \"LSTM\", \"GRU\", or give your own PyTorch nn.Module"

\* __init__ without the check of the model type
RNNModel__init__Unchecked(mdl, hidden_dim, dropout, training_length, probabilistic) ==
    [exc |-> None,
     self |-> [rnn_type_or_module |-> mdl,
               dropout |-> dropout,
               hidden_dim |-> hidden_dim,
               training_length |-> training_length,
               is_recurrent |-> TRUE,
               is_probabilistic |-> probabilistic]]

\* RNNModel.__init__ after super().__init__(**kwargs): the exception it ends
\* with (None when it returns) and the attributes it has assigned by then
RNNModel__init__(mdl, hidden_dim, dropout, training_length, probabilistic) ==
    LET e == IF mdl \notin RNNTypes
             THEN raise_if_not(isinstance_Module(mdl), mdl.cls \o NotValidMessage)
             ELSE None
    IN  IF e # None
        THEN [exc |-> e, self |-> NoAttrs]
        ELSE [exc |-> None,
              self |-> [rnn_type_or_module |-> mdl,
                        dropout |-> dropout,
                        hidden_dim |-> hidden_dim,
                        training_length |-> training_length,
                        is_recurrent |-> TRUE,
                        is_probabilistic |-> probabilistic]]

\* _create_model with input_dim and output_dim taken for each other
_create_model_Swapped(slf, input_dim, output_dim) ==
    [ret |-> IF slf.rnn_type_or_module \in RNNTypes
             THEN _RNNModule(0, slf.rnn_type_or_module.val, output_dim, slf.hidden_dim,
                             input_dim, slf.dropout, slf.is_probabilistic)
             ELSE slf.rnn_type_or_module,
     self |-> slf]

\* RNNModel._create_model: ret is the module returned, self the attributes after
_create_model(slf, input_dim, output_dim) ==
    [ret |-> IF slf.rnn_type_or_module \in RNNTypes
             THEN _RNNModule(0, slf.rnn_type_or_module.val, input_dim, slf.hidden_dim,
                             output_dim, slf.dropout, slf.is_probabilistic)
             ELSE slf.rnn_type_or_module,
     self |-> slf]

\* darts.utils.data.ShiftedDataset: samples (input, output, covariate) cut from
\* each target series, all of `length` steps, the output `shift` steps after the
\* input and the covariate shifted with it when shift_covariates is set.
ShiftedDataset(target_series, covariates, length, shift_covariates, shift) ==
    [cls |-> "ShiftedDataset", target_series |-> target_series,
     covariates |-> covariates, length |-> length,
     shift_covariates |-> shift_covariates, shift |-> shift]

\* Number of samples series number s of the dataset gives
ShiftedDataset_len(ds, s) ==
    LET n == Len(ds.target_series[s]) - ds.length - ds.shift + 1
    IN  IF n > 0 THEN n ELSE 0

\* Sample i (1-based, oldest first) of series s
ShiftedDataset_getitem(ds, s, i) ==
    LET ts == ds.target_series[s]
        cs == IF ds.shift_covariates THEN i + ds.shift ELSE i
    IN  [input |-> SubSeq(ts, i, i + ds.length - 1),
         output |-> SubSeq(ts, i + ds.shift, i + ds.shift + ds.length - 1),
         covariate |-> IF ds.covariates = None THEN None
                       ELSE [cls |-> "array",
                             val |-> SubSeq(ds.covariates.val[s], cs, cs + ds.length - 1)]]

\* _build_train_dataset leaving shift_covariates at its default
_build_train_dataset_CovariatesUnshifted(slf, target, covariates) ==
    ShiftedDataset(target, covariates, slf.training_length, FALSE, 1)

\* RNNModel._build_train_dataset
_build_train_dataset(slf, target, covariates) ==
    ShiftedDataset(target, covariates, slf.training_length, TRUE, 1)

\* RNNModel._produce_train_output
_produce_train_output(mdl, data) == forward(mdl, data, None).ret[1]

\* _means_and_vars_from_output without the softplus
_means_and_vars_from_output_NoSoftplus(mdl, output) ==
    <<SliceLast(output, 0, mdl.target_size),
      SliceLast(output, mdl.target_size, output.shape[3])>>

\* RNNModel._means_and_vars_from_output: the pair (output_means, output_vars)
_means_and_vars_from_output(mdl, output) ==
    LET output_means == SliceLast(output, 0, mdl.target_size)
        output_vars == Softplus(SliceLast(output, mdl.target_size, output.shape[3]))
    IN  <<output_means, output_vars>>

\* TorchForecastingModel._compute_loss: the loss criterion of the base class
super_compute_loss(output, target) ==
    [fn |-> "TorchForecastingModel._compute_loss", output |-> output, target |-> target]

\* _compute_loss with the default (mean) reduction
_compute_loss_MeanReduction(slf, mdl, output, target) ==
    IF slf.is_probabilistic
    THEN LET mv == _means_and_vars_from_output(mdl, output)
         IN  [ret |-> GaussianNLLLoss("mean", mv[1], target, mv[2]),
              calls |-> <<[fn |-> "_means_and_vars_from_output", args |-> <<output>>],
                          [fn |-> "GaussianNLLLoss", args |-> <<mv[1], target, mv[2]>>]>>]
    ELSE [ret |-> super_compute_loss(output, target),
          calls |-> <<[fn |-> "super()._compute_loss", args |-> <<output, target>>]>>]

\* RNNModel._compute_loss
_compute_loss(slf, mdl, output, target) ==
    IF slf.is_probabilistic
    THEN LET mv == _means_and_vars_from_output(mdl, output)
         IN  [ret |-> GaussianNLLLoss("sum", mv[1], target, mv[2]),
              calls |-> <<[fn |-> "_means_and_vars_from_output", args |-> <<output>>],
                          [fn |-> "GaussianNLLLoss", args |-> <<mv[1], target, mv[2]>>]>>]
    ELSE [ret |-> super_compute_loss(output, target),
          calls |-> <<[fn |-> "super()._compute_loss", args |-> <<output, target>>]>>]

\* _produce_predict_output calling the module without the hidden state
_produce_predict_output_NoHidden(slf, mdl, input, last_hidden_state) ==
    LET f == forward(mdl, input, None)
    IN  IF slf.is_probabilistic
        THEN LET mv == _means_and_vars_from_output(mdl, f.ret[1])
             IN  [ret |-> <<torch_normal(mv[1], mv[2]), f.ret[2]>>,
                  calls |-> f.calls \o
                      <<[fn |-> "_means_and_vars_from_output", args |-> <<f.ret[1]>>],
                        [fn |-> "torch.normal", args |-> <<mv[1], mv[2]>>]>>]
        ELSE [ret |-> f.ret, calls |-> f.calls]

\* RNNModel._produce_predict_output
_produce_predict_output(slf, mdl, input, last_hidden_state) ==
    LET f == forward(mdl, input, last_hidden_state)
    IN  IF slf.is_probabilistic
        THEN LET mv == _means_and_vars_from_output(mdl, f.ret[1])
             IN  [ret |-> <<torch_normal(mv[1], mv[2]), f.ret[2]>>,
                  calls |-> f.calls \o
                      <<[fn |-> "_means_and_vars_from_output", args |-> <<f.ret[1]>>],
                        [fn |-> "torch.normal", args |-> <<mv[1], mv[2]>>]>>]
        ELSE [ret |-> f.ret, calls |-> f.calls]

----------------------------------------------------------------------------
(* The arguments the methods are called with *)

\* nn.Module instances a caller built itself
UserModules ==
    { _RNNModule(1, "GRU", 1, 2, 1, 0, FALSE),
      _RNNModule(2, "LSTM", 2, 1, 2, 0, TRUE) }

ModelArgs ==
    RNNTypes \cup {Str("lstm"), Str("TCN")} \cup UserModules
             \cup {[cls |-> "int", val |-> 42], None}

\* (hidden_dim, dropout) pairs; dropout in thousandths
Hyper == {<<1, 0>>, <<2, 500>>}

\* Seeds of the tensors and series the methods are called with
Seeds == {0, 1}

Series(n, seed) == [i \in 1..n |-> (i + seed) * 1000]

Targets ==
    { <<Series(n, sd)>> : n \in (MaxTrainLen + 1)..(MaxTrainLen + 2), sd \in Seeds }

Covariates(target) ==
    {None, [cls |-> "list", val |-> <<Series(Len(target[1]), 7)>>]}

Hiddens(mdl, B) ==
    {None} \cup { [cls |-> "hidden", type |-> mdl.rnn.type,
                   shape |-> <<1, B, mdl.rnn.hidden_size>>, val |-> v] :
                  v \in Seeds }

----------------------------------------------------------------------------
(* The state machine *)

Init ==
    /\ pc = "start"
    /\ self = NoAttrs
    /\ kwargs = NoAttrs
    /\ exc = None
    /\ model = None
    /\ op = "none"
    /\ args = NoAttrs
    /\ ret = None
    /\ calls = <<>>
    /\ step = 0

\* RNNModel(model, input_chunk_length, hidden_dim, dropout, training_length, probabilistic)
Construct ==
    /\ pc = "start"
    /\ \E mdl \in ModelArgs, icl \in {1, MaxLen}, hy \in Hyper,
          tl \in 1..MaxTrainLen, prob \in BOOLEAN :
         LET r == RNNModel__init__(mdl, hy[1], hy[2], tl, prob)
         IN  /\ kwargs' = [input_chunk_length |-> icl, output_chunk_length |-> 1]
             /\ self' = r.self
             /\ exc' = r.exc
             /\ pc' = IF r.exc = None THEN "constructed" ELSE "raised"
             /\ op' = "__init__"
             /\ args' = [model |-> mdl]
    /\ ret' = None
    /\ calls' = <<>>
    /\ UNCHANGED <<model, step>>

\* The harness builds the network once: self.model = self._create_model(...)
CreateModel ==
    /\ pc = "constructed"
    /\ op = "idle"
    /\ model = None
    /\ \E input_dim \in 1..MaxDim, output_dim \in 1..MaxDim :
         LET r == _create_model(self, input_dim, output_dim)
         IN  /\ model' = r.ret
             /\ self' = r.self
             /\ ret' = r.ret
             /\ args' = [input_dim |-> input_dim, output_dim |-> output_dim]
    /\ op' = "_create_model"
    /\ calls' = <<>>
    /\ step' = 0
    /\ UNCHANGED <<pc, kwargs, exc>>

BuildTrainDataset ==
    /\ pc = "constructed"
    /\ op = "idle"
    /\ \E target \in Targets :
         \E covariates \in Covariates(target) :
            /\ ret' = _build_train_dataset(self, target, covariates)
            /\ args' = [target |-> target, covariates |-> covariates]
    /\ op' = "_build_train_dataset"
    /\ calls' = <<>>
    /\ step' = 0
    /\ UNCHANGED <<pc, self, kwargs, exc, model>>

\* The module called directly on a batch
Forward ==
    /\ op = "idle"
    /\ model # None
    /\ \E B \in 1..MaxBatch, L \in 1..MaxLen, seed \in Seeds :
         \E h \in Hiddens(model, B) :
            LET x == TensorOf(<<B, L, model.rnn.input_size>>, seed)
                r == forward(model, x, h)
            IN  /\ ret' = r.ret
                /\ calls' = r.calls
                /\ args' = [x |-> x, h |-> h]
    /\ op' = "forward"
    /\ step' = 0
    /\ UNCHANGED <<pc, self, kwargs, exc, model>>

\* A training batch: sequences of training_length steps
ProduceTrainOutput ==
    /\ op = "idle"
    /\ model # None
    /\ \E B \in 1..MaxBatch, seed \in Seeds :
         LET data == TensorOf(<<B, self.training_length, model.rnn.input_size>>, seed)
         IN  /\ ret' = _produce_train_output(model, data)
             /\ args' = [data |-> data]
    /\ op' = "_produce_train_output"
    /\ calls' = <<>>
    /\ step' = 0
    /\ UNCHANGED <<pc, self, kwargs, exc, model>>

\* The loss of the training output just produced against a target batch
ComputeLoss ==
    /\ op = "_produce_train_output"
    /\ \E seed \in Seeds :
         LET target == TensorOf(<<ret.shape[1], ret.shape[2], model.target_size>>, seed)
             r == _compute_loss(self, model, ret, target)
         IN  /\ ret' = r.ret
             /\ calls' = r.calls
             /\ args' = [output |-> ret, target |-> target]
    /\ op' = "_compute_loss"
    /\ step' = 0
    /\ UNCHANGED <<pc, self, kwargs, exc, model>>

\* _means_and_vars_from_output on an output of any width
MeansAndVars ==
    /\ op = "idle"
    /\ model # None
    /\ \E B \in 1..MaxBatch, L \in 1..MaxLen, W \in 1..(2 * MaxDim), seed \in Seeds :
         LET output == TensorOf(<<B, L, W>>, seed)
         IN  /\ ret' = _means_and_vars_from_output(model, output)
             /\ args' = [output |-> output]
    /\ op' = "_means_and_vars_from_output"
    /\ calls' = <<>>
    /\ step' = 0
    /\ UNCHANGED <<pc, self, kwargs, exc, model>>

\* First step of a prediction loop: input_chunk_length past steps, no hidden state
PredictFirst ==
    /\ op = "idle"
    /\ model # None
    /\ \E B \in 1..MaxBatch, seed \in Seeds :
         LET input == TensorOf(<<B, kwargs.input_chunk_length, model.rnn.input_size>>, seed)
             r == _produce_predict_output(self, model, input, None)
         IN  /\ ret' = r.ret
             /\ calls' = r.calls
             /\ args' = [input |-> input, last_hidden_state |-> None]
    /\ op' = "_produce_predict_output"
    /\ step' = 1
    /\ UNCHANGED <<pc, self, kwargs, exc, model>>

\* Later steps: one new step of input and the hidden state the step before returned
PredictNext ==
    /\ op = "_produce_predict_output"
    /\ step < MaxSteps
    /\ \E seed \in Seeds :
         LET input == TensorOf(<<args.input.shape[1], 1, model.rnn.input_size>>, seed)
             r == _produce_predict_output(self, model, input, ret[2])
         IN  /\ ret' = r.ret
             /\ calls' = r.calls
             /\ args' = [input |-> input, last_hidden_state |-> ret[2]]
    /\ op' = "_produce_predict_output"
    /\ step' = step + 1
    /\ UNCHANGED <<pc, self, kwargs, exc, model>>

\* The call returns to the harness, which makes one call at a time
Return ==
    /\ pc = "constructed"
    /\ op # "idle"
    /\ op' = "idle"
    /\ args' = NoAttrs
    /\ ret' = None
    /\ calls' = <<>>
    /\ step' = 0
    /\ UNCHANGED <<pc, self, kwargs, exc, model>>

Next ==
    \/ Construct
    \/ CreateModel
    \/ BuildTrainDataset
    \/ Forward
    \/ ProduceTrainOutput
    \/ ComputeLoss
    \/ MeansAndVars
    \/ PredictFirst
    \/ PredictNext
    \/ Return

Spec == Init /\ [][Next]_vars

----------------------------------------------------------------------------
(* Properties *)

OutputWidth(mdl) == IF mdl.is_probabilistic THEN 2 * mdl.target_size ELSE mdl.target_size

\* C1: the constructor returns exactly when the model argument is one of the
\* strings "RNN", "LSTM", "GRU" or an nn.Module, and then rnn_type_or_module is
\* that argument; for every other value it raises the 'is not a valid RNN
\* model' error and rnn_type_or_module is never set.
C1_ConstructorAcceptsOnlyValidModels ==
    /\ op = "__init__" =>
         LET valid == \/ args.model \in {Str("RNN"), Str("LSTM"), Str("GRU")}
                      \/ args.model.cls = "_RNNModule"
         IN  /\ pc = "constructed" <=> valid
             /\ pc = "raised" <=> ~valid
             /\ valid => exc = None /\ self.rnn_type_or_module = args.model
             /\ ~valid => /\ exc # None
                          /\ exc.cls = "ValueError"
                          /\ exc.message = args.model.cls \o NotValidMessage
    /\ pc # "constructed" => "rnn_type_or_module" \notin DOMAIN self

C1_Witness ==
    /\ op = "__init__"
    /\ pc = "raised"
    /\ args.model = Str("lstm")
    /\ exc.cls = "ValueError"

\* C2: in a prediction loop the recurrent module is run, at the first step
\* (last_hidden_state = None), from its default initial state and, at every
\* later step, with exactly the hidden state the step before returned; every
\* step returns the module's new hidden state as its second result, whether
\* the model is probabilistic or not.
C2_HiddenStateThreaded ==
    [][ op' = "_produce_predict_output" =>
          /\ Len(calls') >= 1
          /\ calls'[1].fn = "self.rnn"
          /\ \A i \in 2..Len(calls') : calls'[i].fn # "self.rnn"
          /\ calls'[1].args[1] = args'.input
          /\ IF step' = 1
             THEN Len(calls'[1].args) = 1
             ELSE /\ op = "_produce_predict_output"
                  /\ Len(calls'[1].args) = 2
                  /\ calls'[1].args[2] = ret[2]
          /\ ret'[2] = nn_rnn(model.rnn, calls'[1].args).hidden
      ]_vars

C2_Witness ==
    /\ op = "_produce_predict_output"
    /\ step >= 2
    /\ self.is_probabilistic
    /\ Len(calls[1].args) = 2
    /\ calls[1].args[2].val # 0
    /\ ret[2].val # calls[1].args[2].val

C4_ShiftedTrainDataset ==
    op = "_build_train_dataset" =>
        /\ ret.cls = "ShiftedDataset"
        /\ ret.target_series = args.target
        /\ ret.covariates = args.covariates
        /\ ret.length = self.training_length
        /\ ret.shift = 1
        /\ ret.shift_covariates
        /\ \A s \in 1..Len(args.target) :
             \A i \in 1..ShiftedDataset_len(ret, s) :
                LET item == ShiftedDataset_getitem(ret, s, i)
                IN  /\ Len(item.input) = self.training_length
                    /\ Len(item.output) = self.training_length
                    /\ \A j \in 1..self.training_length :
                         /\ item.input[j] = args.target[s][i + j - 1]
                         /\ item.output[j] = args.target[s][i + j]
                         /\ args.covariates # None =>
                              item.covariate.val[j] = args.covariates.val[s][i + j]

C4_Witness ==
    /\ op = "_build_train_dataset"
    /\ args.covariates # None
    /\ self.training_length >= 2
    /\ self.training_length # kwargs.input_chunk_length
    /\ ShiftedDataset_len(ret, 1) >= 2

\* C5: for a model given as "RNN", "LSTM" or "GRU", _create_model returns a
\* new _RNNModule of that type with input_size = input_dim, target_size =
\* output_dim and hidden_dim, dropout, probabilistic taken from the RNNModel;
\* for a model given as a module it returns that very module whatever the
\* dimensions are; it changes no attribute of the RNNModel.
C5_CreateModel ==
    [][ op' = "_create_model" =>
          /\ self' = self
          /\ IF self.rnn_type_or_module \in {Str("RNN"), Str("LSTM"), Str("GRU")}
             THEN /\ ret'.cls = "_RNNModule"
                  /\ ret'.id = 0
                  /\ ret'.name = self.rnn_type_or_module.val
                  /\ ret'.rnn.type = self.rnn_type_or_module.val
                  /\ ret'.rnn.input_size = args'.input_dim
                  /\ ret'.target_size = args'.output_dim
                  /\ ret'.rnn.hidden_size = self.hidden_dim
                  /\ ret'.V.in_features = self.hidden_dim
                  /\ ret'.V.out_features = OutputWidth(ret')
                  /\ ret'.rnn.dropout = self.dropout
                  /\ ret'.is_probabilistic = self.is_probabilistic
             ELSE ret' = self.rnn_type_or_module
      ]_vars

C5_Witness ==
    /\ op = "_create_model"
    /\ ret \in UserModules
    /\ ret = self.rnn_type_or_module
    /\ ret.rnn.input_size # args.input_dim
    /\ ret.target_size # args.output_dim

\* The split _means_and_vars_from_output(output) makes of the last axis, for a
\* module of target size ts: mv[1] holds the first ts entries as they are,
\* mv[2] the softplus of all the others, and nothing else.
IsPartition(ts, output, mv) ==
    LET B == output.shape[1]
        L == output.shape[2]
        W == output.shape[3]
        k == IF ts < W THEN ts ELSE W
    IN  /\ mv[1].shape = <<B, L, k>>
        /\ mv[2].shape = <<B, L, W - k>>
        /\ Len(mv[1].data) = B * L * k
        /\ Len(mv[2].data) = B * L * (W - k)
        /\ \A b \in 1..B, l \in 1..L :
             /\ \A j \in 1..k : At(mv[1], b, l, j) = At(output, b, l, j)
             /\ \A j \in 1..(W - k) :
                  At(mv[2], b, l, j) = SoftplusVal(At(output, b, l, k + j))
        /\ W = 2 * ts => mv[1].shape = mv[2].shape /\ mv[1].shape = <<B, L, ts>>

\* C6, as claimed: the split is a partition and every variance is strictly
\* positive.
C6_Original ==
    op = "_means_and_vars_from_output" =>
        /\ IsPartition(model.target_size, args.output, ret)
        /\ \A i \in 1..Len(ret[2].data) : ret[2].data[i] > 0

\* C6, amended: the split is a partition; every variance is non-negative, and
\* strictly positive wherever the entry it comes from is above -100 (below,
\* exp() underflows and the softplus is 0.0).
C6_PartitionNonNegative ==
    op = "_means_and_vars_from_output" =>
        /\ IsPartition(model.target_size, args.output, ret)
        /\ \A i \in 1..Len(ret[2].data) : ret[2].data[i] >= 0
        /\ LET raw == SliceLast(args.output, model.target_size, args.output.shape[3])
           IN  \A i \in 1..Len(ret[2].data) :
                  raw.data[i] > -100000 => ret[2].data[i] > 0

C6_Witness ==
    /\ op = "_means_and_vars_from_output"
    /\ args.output.shape[3] = 2 * model.target_size
    /\ model.target_size >= 2
    /\ \E i \in 1..Len(ret[2].data) : ret[2].data[i] = 0
    /\ \E i \in 1..Len(ret[2].data) : ret[2].data[i] > 0
    /\ \E i \in 1..Len(ret[1].data) : ret[1].data[i] < 0

\* C7: _compute_loss chooses by is_probabilistic alone: the Gaussian negative
\* log-likelihood, summed, of (means, target, variances) of the split output and
\* no call of the base class; or else the base-class loss of the unmodified
\* (output, target) and no split.
C7_LossByProbabilisticFlag ==
    op = "_compute_loss" =>
        IF self.is_probabilistic
        THEN LET ts == model.target_size
                 means == SliceLast(args.output, 0, ts)
                 variances == Softplus(SliceLast(args.output, ts, args.output.shape[3]))
             IN  /\ ret.fn = "GaussianNLLLoss"
                 /\ ret.reduction = "sum"
                 /\ ret.input = means
                 /\ ret.target = args.target
                 /\ ret.var = variances
                 /\ \A i \in 1..Len(calls) : calls[i].fn # "super()._compute_loss"
        ELSE /\ ret.fn = "TorchForecastingModel._compute_loss"
             /\ ret.output = args.output
             /\ ret.target = args.target
             /\ \A i \in 1..Len(calls) : calls[i].fn = "super()._compute_loss"

C7_Witness ==
    /\ op = "_compute_loss"
    /\ self.is_probabilistic
    /\ model.is_probabilistic
    /\ ret.fn = "GaussianNLLLoss"
    /\ Len(ret.var.data) >= 2

\* C8: in probabilistic mode the Gaussian a forecast is drawn from has the
\* variance that _compute_loss hands to the Gaussian loss for the same network
\* output.
C8_SameVarianceInLossAndSampling ==
    (op = "_produce_predict_output" /\ self.is_probabilistic) =>
        LET output == forward(model, args.input, args.last_hidden_state).ret[1]
            target == SliceLast(output, 0, model.target_size)
            loss == _compute_loss(self, model, output, target).ret
        IN  VarianceOfSample(ret[1]) = loss.var

====
